---- MODULE Spec2Model ----
(***************************************************************************)
(* Model of the contacts REST backend: the users table, the registration  *)
(* / login / email-confirmation / request_email handlers of                *)
(* src/api/auth.py, the identity resolver get_current_user of              *)
(* src/services/auth.py with its Redis user cache, and the contacts table  *)
(* with the routes of src/api/contacts.py.                                 *)
(*                                                                         *)
(* Every request is served by its own coroutine; a handler is split at     *)
(* the awaits on the persistence store, which are the points where other   *)
(* requests can run.  rq[p] is the state of the request served in slot p.  *)
(***************************************************************************)
EXTENDS Integers, Sequences, FiniteSets, TLC

\* ------------------------------------------------------------------ bounds
NumProcs == 2
MaxTick == 2
SecondsPerTick == 300

\* ------------------------------------------------------- program constants
CACHE_TTL == 600
JWT_EXPIRATION_SECONDS == 3600
HTTP_200 == 200
HTTP_201 == 201
HTTP_400 == 400
HTTP_401 == 401
HTTP_403 == 403
HTTP_404 == 404
HTTP_409 == 409
HTTP_422 == 422
HTTP_500 == 500

EMAIL_TOKEN_SECONDS == 7 * 24 * 3600

\* ------------------------------------------------------------ input domains
Procs == 1..NumProcs
\* UserCreate.username and UserCreate.email are both plain str: a username may
\* be spelled like an e-mail address.
Usernames == {"alice", "bob@x"}
Emails == {"alice@x", "bob@x"}
Passwords == {"pw1", "pw2"}
UserRole == {"user", "moderator", "admin"}

\* The UserCreate bodies a client posts: every pairing of the two usernames
\* with the two e-mail addresses, each role and each password among them.
UserCreate ==
    {[username |-> "alice", email |-> "alice@x", password |-> "pw1", role |-> "user"],
     [username |-> "bob@x", email |-> "bob@x", password |-> "pw2", role |-> "admin"],
     [username |-> "alice", email |-> "bob@x", password |-> "pw2", role |-> "moderator"],
     [username |-> "bob@x", email |-> "alice@x", password |-> "pw1", role |-> "user"]}

NoSub == "<no sub>"
NoAvatar == "<None>"
GravatarUrl == "gravatar"
CloudinaryUrl == "cloudinary"

VARIABLES users, cache, now, rq, contacts

vars == <<users, cache, now, rq, contacts>>

\* ------------------------------------------------------------ Hash (bcrypt)
\* CryptContext(schemes=["bcrypt"]): the digest string of a password, and the
\* check that a plaintext reproduces a digest.
NoHash == ""

\* Mutant: the password is stored as it was posted.
get_password_hash_Plaintext(password) == password

get_password_hash(password) == "$2b$" \o password

verify_password(plain_password, hashed_password) ==
    hashed_password = "$2b$" \o plain_password

\* ------------------------------------------------------------- users table
NoUser == [id |-> 0, username |-> "", email |-> "", hashed_password |-> NoHash,
           avatar |-> NoAvatar, confirmed |-> FALSE, role |-> "user"]

FirstMatch(S) == IF S = {} THEN NoUser
                 ELSE users[CHOOSE i \in S : \A j \in S : i <= j]

get_user_by_username(username) ==
    FirstMatch({i \in DOMAIN users : users[i].username = username})

get_user_by_email(email) ==
    FirstMatch({i \in DOMAIN users : users[i].email = email})

\* Mutant: only the email column is declared unique.
UniqueViolation_EmailOnly(username, email) ==
    \E i \in DOMAIN users : users[i].email = email

\* UNIQUE(username), UNIQUE(email) of the users table: the commit of an insert
\* that breaks one of them raises IntegrityError.
UniqueViolation(username, email) ==
    \E i \in DOMAIN users : users[i].username = username \/ users[i].email = email

\* Mutant: the confirmed column defaults to True.
NewUser_Confirmed(username, email, hashed_password, avatar, role) ==
    [id |-> Len(users) + 1, username |-> username, email |-> email,
     hashed_password |-> hashed_password, avatar |-> avatar,
     confirmed |-> TRUE, role |-> role]

\* UserRepository.create_user: the row the commit inserts.
NewUser(username, email, hashed_password, avatar, role) ==
    [id |-> Len(users) + 1, username |-> username, email |-> email,
     hashed_password |-> hashed_password, avatar |-> avatar,
     confirmed |-> FALSE, role |-> role]

\* UserRepository.confirmed_email: user.confirmed = True on the row of email.
ConfirmRow(u, email) == IF u.email = email THEN [u EXCEPT !.confirmed = TRUE] ELSE u

SetConfirmed(email) == [i \in DOMAIN users |-> ConfirmRow(users[i], email)]

\* Mutant: the avatar update writes the default role back with the avatar.
SetAvatar_ResetRole(email, url) ==
    [i \in DOMAIN users |->
        IF users[i].email = email
        THEN [users[i] EXCEPT !.avatar = url, !.role = "user"] ELSE users[i]]

\* UserRepository.update_avatar_url: user.avatar = url on the row of email.
SetAvatar(email, url) ==
    [i \in DOMAIN users |->
        IF users[i].email = email THEN [users[i] EXCEPT !.avatar = url] ELSE users[i]]

\* ------------------------------------------------------------------ tokens
\* A token string: form says whether it parses and whether its HMAC verifies;
\* sub / exp / iat are the claims of its payload (iat = -1: no iat claim).
NoToken == [form |-> "none", sub |-> NoSub, exp |-> 0, iat |-> -1]

\* expires_delta: Optional[int] = None
None == -1

\* "if expires_delta:" is false for None and for 0 alike.
create_access_token(sub, expires_delta, t) ==
    [form |-> "ok", sub |-> sub,
     exp |-> IF expires_delta # None /\ expires_delta # 0 THEN t + expires_delta
             ELSE t + JWT_EXPIRATION_SECONDS,
     iat |-> -1]

create_email_token(sub, t) ==
    [form |-> "ok", sub |-> sub, exp |-> t + EMAIL_TOKEN_SECONDS, iat |-> t]

\* Mutant: a token is refused a full default lifetime before its exp.
JWTError_Early(token, t) ==
    token.form # "ok" \/ token.exp < t + JWT_EXPIRATION_SECONDS

\* Mutant: the exp claim is not verified.
JWTError_NoExp(token, t) == token.form # "ok"

\* jose.jwt.decode: JWTError for a malformed token, a bad signature, or an
\* exp claim that lies before the current time.
JWTError(token, t) == token.form # "ok" \/ token.exp < t

\* payload["sub"]: KeyError when the payload has no sub claim.
KeyError(token) == token.sub = NoSub

Subs == Usernames \cup Emails
FarFuture == (MaxTick + 1) * SecondsPerTick

\* The token strings a client may present at time t: well-formed and signed
\* with the server's secret (any sub or none; expired a second ago, or not
\* expiring within the horizon), one with a wrong signature, one that is not
\* a JWT at all.
TokenInputs(t) ==
    [form : {"ok"}, sub : Subs \cup {NoSub}, exp : {t - 1, FarFuture}, iat : {-1}]
    \cup {[form |-> "badsig", sub |-> "alice", exp |-> FarFuture, iat |-> -1],
          [form |-> "malformed", sub |-> NoSub, exp |-> 0, iat |-> -1]}

\* ------------------------------------------------------------ Redis cache
NoEntry == [val |-> [pickled |-> NoUser], exp |-> 0]

pickle_dumps(user) == [pickled |-> user]
pickle_loads(bytes) == bytes.pickled

\* redis_client.set(key, value, ex=ttl) at time t
CacheSet(key, value, ttl, t) == [cache EXCEPT ![key] = [val |-> value, exp |-> t + ttl]]

\* Mutant: keys are stored without a time to live.
Expire_Never(c, t) == c

\* Redis drops a key once its time to live has run out.
Expire(c, t) == [k \in DOMAIN c |-> IF c[k].exp <= t THEN NoEntry ELSE c[k]]

\* ----------------------------------------------------------------- contacts
\* At most MaxContacts rows are ever inserted into the contacts table.
MaxContacts == 2

\* A date, reduced to the month and the day the birthday query extracts.
NoDate == [month |-> 0, day |-> 0]

\* Days of each month of a common year.
DaysInMonth(month) ==
    IF month = 2 THEN 28 ELSE IF month \in {4, 6, 9, 11} THEN 30 ELSE 31

\* date + timedelta(days): at most one month is crossed for days <= 28.
timedelta(d, days) ==
    IF d.day + days <= DaysInMonth(d.month)
    THEN [month |-> d.month, day |-> d.day + days]
    ELSE [month |-> (d.month % 12) + 1, day |-> d.day + days - DaysInMonth(d.month)]

\* The birthdays clients submit, and the days on which the query runs: at the
\* start of a month, at the end of a month and at the end of the year.
Birthdays == {[month |-> 1, day |-> 2], [month |-> 2, day |-> 1]}
Todays == {[month |-> 1, day |-> 1], [month |-> 1, day |-> 28], [month |-> 12, day |-> 28]}

FirstNames == {"ann", "ben"}

\* schemas.ContactModel: first_name stands for the four string fields
\* (first_name, last_name, email, phone_number), which the code treats alike.
ContactModel == [first_name : FirstNames, birthday : Birthdays]
NoBody == [first_name |-> "", birthday |-> NoDate]

\* db.models.Contact: the columns of a row; NoContact is None, and the place
\* of a deleted row in the table (ids are never reused).
NoContact == [id |-> 0, first_name |-> "", birthday |-> NoDate, user_id |-> 0]

ContactIds == 1..MaxContacts

\* The rows of the contacts table.
ContactRows == {contacts[i] : i \in DOMAIN contacts} \ {NoContact}

\* schemas.ContactResponse, the response_model of the routes that return one
\* contact: the fields of ContactModel, id and created_at, read from the
\* attributes of the returned object (from_attributes). All are required.
ContactResponse == {"first_name", "birthday", "id", "created_at"}

ResponseValidContact(contact) == ContactResponse \subseteq DOMAIN contact

\* Mutant: the lookup filters by id alone.
get_contact_by_id_AnyOwner(contact_id, user) ==
    IF contact_id \in DOMAIN contacts /\ contacts[contact_id] # NoContact
    THEN contacts[contact_id]
    ELSE NoContact

\* select(Contact).filter_by(id=contact_id, user=user) ... scalar_one_or_none()
get_contact_by_id(contact_id, user) ==
    IF /\ contact_id \in DOMAIN contacts
       /\ contacts[contact_id] # NoContact
       /\ contacts[contact_id].user_id = user.id
    THEN contacts[contact_id]
    ELSE NoContact

\* The WHERE clause of get_contacts_with_upcoming_birthdays, as written.
upcoming_birthdays_criteria(birthday, today) ==
    LET future_date == timedelta(today, 7)
    IN /\ birthday.month >= today.month
       /\ birthday.day >= today.day
       /\ birthday.month <= future_date.month
       /\ birthday.day <= future_date.day

\* ---------------------------------------------------------------- requests
\* schemas.User, the response_model of /register: the fields the response keeps.
NoUserOut == [id |-> 0, username |-> "", email |-> "", avatar |-> NoAvatar, role |-> "user"]

UserOut(u) == [id |-> u.id, username |-> u.username, email |-> u.email,
               avatar |-> u.avatar, role |-> u.role]

\* schemas.User.avatar is a required str: a user without avatar does not
\* validate against the response model.
ResponseValid(u) == u.avatar # NoAvatar

Idle == [op |-> "idle", pc |-> "idle",
         username |-> "", email |-> "", password |-> "", role |-> "user",
         token |-> NoToken, hashed |-> NoHash, user |-> NoUser,
         taken |-> FALSE, hit |-> FALSE,
         status |-> 0, detail |-> "", out_user |-> NoUserOut, out_token |-> NoToken,
         resolved |-> NoUser, tasks |-> <<>>,
         nquery |-> 0, nwrite |-> 0, ncget |-> 0, ncset |-> 0,
         nsend |-> 0, mail |-> NoToken, minted |-> "",
         expires_delta |-> None, issued_at |-> 0,
         caller |-> 0, contact_id |-> 0, body |-> NoBody, today |-> NoDate,
         contact |-> NoContact, out_contact |-> NoContact, out_contacts |-> {}]

\* raise HTTPException(status_code, detail) / an unhandled exception (500)
Raise(r, status, detail) == [r EXCEPT !.pc = "done", !.status = status, !.detail = detail]

Init ==
    /\ users = <<>>
    /\ cache = [k \in Subs |-> NoEntry]
    /\ now = 0
    /\ rq = [p \in Procs |-> Idle]
    /\ contacts = <<>>

\* ------------------------------------------------------------ register_user
\* Whether the handler is called with the e-mail address or the username of
\* an existing user (recorded in rq[p].taken when the request arrives).
Taken(username, email) ==
    \E i \in DOMAIN users : users[i].email = email \/ users[i].username = username

\* Entry of the handler up to the answer of get_user_by_email.
register_user(p) ==
    /\ rq[p].pc = "idle"
    /\ \E user_data \in UserCreate :
         LET r0 == [Idle EXCEPT !.op = "register", !.username = user_data.username,
                                !.email = user_data.email,
                                !.password = user_data.password, !.role = user_data.role,
                                !.taken = Taken(user_data.username, user_data.email),
                                !.nquery = 1]
             email_user == get_user_by_email(user_data.email)
         IN rq' = [rq EXCEPT ![p] =
                     IF email_user # NoUser
                     THEN Raise(r0, HTTP_409, "email exists")
                     ELSE [r0 EXCEPT !.pc = "reg_username"]]
    /\ UNCHANGED <<users, cache, now, contacts>>

\* Mutant: the handler checks the e-mail address only.
register_check_username_Skip(p) ==
    /\ rq[p].pc = "reg_username"
    /\ rq' = [rq EXCEPT ![p] = [@ EXCEPT !.nquery = @ + 1, !.pc = "reg_create",
                                         !.hashed = get_password_hash(rq[p].password)]]
    /\ UNCHANGED <<users, cache, now, contacts>>

\* get_user_by_username, then the password is replaced by its hash.
register_check_username(p) ==
    /\ rq[p].pc = "reg_username"
    /\ LET r0 == [rq[p] EXCEPT !.nquery = @ + 1]
           username_user == get_user_by_username(rq[p].username)
       IN rq' = [rq EXCEPT ![p] =
                   IF username_user # NoUser
                   THEN Raise(r0, HTTP_409, "username exists")
                   ELSE [r0 EXCEPT !.pc = "reg_create",
                                   !.hashed = get_password_hash(rq[p].password)]]
    /\ UNCHANGED <<users, cache, now, contacts>>

\* UserService.create_user: the Gravatar lookup (avatar stays None when it
\* raises), then UserRepository.create_user up to its commit.
register_create(p) ==
    /\ rq[p].pc = "reg_create"
    /\ \E avatar \in {GravatarUrl, NoAvatar} :
         IF UniqueViolation(rq[p].username, rq[p].email)
         THEN /\ rq' = [rq EXCEPT ![p] = Raise(rq[p], HTTP_500, "IntegrityError")]
              /\ UNCHANGED users
         ELSE LET user == NewUser(rq[p].username, rq[p].email, rq[p].hashed,
                                  avatar, rq[p].role)
              IN /\ users' = Append(users, user)
                 /\ rq' = [rq EXCEPT ![p] = [@ EXCEPT !.pc = "reg_send", !.user = user,
                                                      !.nwrite = @ + 1]]
    /\ UNCHANGED <<cache, now, contacts>>

\* Mutant: the handler schedules the confirmation e-mail twice.
register_send_Twice(p) ==
    /\ rq[p].pc = "reg_send"
    /\ LET new_user == users[rq[p].user.id]
           task == [to |-> new_user.email, username |-> new_user.username,
                    role |-> new_user.role]
           r0 == [rq[p] EXCEPT !.user = new_user, !.nquery = @ + 1,
                               !.tasks = @ \o <<task, task>>]
       IN rq' = [rq EXCEPT ![p] =
                   IF ResponseValid(new_user)
                   THEN [r0 EXCEPT !.pc = "done", !.status = HTTP_201,
                                   !.out_user = UserOut(new_user)]
                   ELSE Raise(r0, HTTP_500, "ResponseValidationError")]
    /\ UNCHANGED <<users, cache, now, contacts>>

\* db.refresh(user), background_tasks.add_task(send_email, ...), return new_user
\* (serialised through response_model=User).
register_send(p) ==
    /\ rq[p].pc = "reg_send"
    /\ LET new_user == users[rq[p].user.id]
           r0 == [rq[p] EXCEPT !.user = new_user, !.nquery = @ + 1,
                               !.tasks = Append(@, [to |-> new_user.email,
                                                    username |-> new_user.username,
                                                    role |-> new_user.role])]
       IN rq' = [rq EXCEPT ![p] =
                   IF ResponseValid(new_user)
                   THEN [r0 EXCEPT !.pc = "done", !.status = HTTP_201,
                                   !.out_user = UserOut(new_user)]
                   ELSE Raise(r0, HTTP_500, "ResponseValidationError")]
    /\ UNCHANGED <<users, cache, now, contacts>>

\* --------------------------------------------------------------- login_user
\* Mutant: the handler does not look at user.confirmed.
login_user_NoConfirmedCheck(p) ==
    /\ rq[p].pc = "idle"
    /\ \E username \in Usernames, password \in Passwords :
         LET r0 == [Idle EXCEPT !.op = "login", !.username = username,
                                !.password = password, !.nquery = 1]
             user == get_user_by_username(username)
         IN rq' = [rq EXCEPT ![p] =
                     IF user = NoUser \/ ~verify_password(password, user.hashed_password)
                     THEN Raise(r0, HTTP_401, "wrong login or password")
                     ELSE [r0 EXCEPT !.pc = "done", !.status = HTTP_200,
                                     !.out_token = create_access_token(user.username, None, now)]]
    /\ UNCHANGED <<users, cache, now, contacts>>

login_user(p) ==
    /\ rq[p].pc = "idle"
    /\ \E username \in Usernames, password \in Passwords :
         LET r0 == [Idle EXCEPT !.op = "login", !.username = username,
                                !.password = password, !.nquery = 1]
             user == get_user_by_username(username)
         IN rq' = [rq EXCEPT ![p] =
                     IF user = NoUser \/ ~verify_password(password, user.hashed_password)
                     THEN Raise(r0, HTTP_401, "wrong login or password")
                     ELSE IF ~user.confirmed
                     THEN Raise(r0, HTTP_401, "email not confirmed")
                     ELSE [r0 EXCEPT !.pc = "done", !.status = HTTP_200,
                                     !.out_token = create_access_token(user.username, None, now)]]
    /\ UNCHANGED <<users, cache, now, contacts>>

\* ---------------------------------------------------------- confirmed_email
\* get_email_from_token
get_email_from_token(r0, token, t) ==
    IF JWTError(token, t) THEN Raise(r0, HTTP_422, "invalid email token")
    ELSE IF KeyError(token) THEN Raise(r0, HTTP_500, "KeyError")
    ELSE [r0 EXCEPT !.email = token.sub]

\* Entry of the handler up to the answer of get_user_by_email.
confirmed_email(p) ==
    /\ rq[p].pc = "idle"
    /\ \E token \in TokenInputs(now) :
         LET r0 == [Idle EXCEPT !.op = "confirm", !.token = token]
             r1 == get_email_from_token(r0, token, now)
             user == get_user_by_email(r1.email)
         IN rq' = [rq EXCEPT ![p] =
                     IF r1.pc = "done" THEN r1
                     ELSE IF user = NoUser
                     THEN Raise([r1 EXCEPT !.nquery = 1], HTTP_400, "Verification error")
                     ELSE IF user.confirmed
                     THEN [r1 EXCEPT !.pc = "done", !.status = HTTP_200, !.nquery = 1,
                                     !.detail = "already confirmed"]
                     ELSE [r1 EXCEPT !.pc = "cf_commit", !.nquery = 1]]
    /\ UNCHANGED <<users, cache, now, contacts>>

\* UserRepository.confirmed_email: get_user_by_email again, confirmed = True, commit.
confirmed_email_commit(p) ==
    /\ rq[p].pc = "cf_commit"
    /\ users' = SetConfirmed(rq[p].email)
    /\ rq' = [rq EXCEPT ![p] = [@ EXCEPT !.pc = "done", !.status = HTTP_200,
                                         !.nquery = @ + 1, !.nwrite = @ + 1,
                                         !.detail = "confirmed"]]
    /\ UNCHANGED <<cache, now, contacts>>

\* ------------------------------------------------------------ request_email
\* Mutant: the handler schedules the e-mail whether or not the user has
\* confirmed the address.
request_email_Always(p) ==
    /\ rq[p].pc = "idle"
    /\ \E email \in Emails :
         LET r0 == [Idle EXCEPT !.op = "request_email", !.email = email, !.nquery = 1]
             user == get_user_by_email(email)
         IN rq' = [rq EXCEPT ![p] =
                     IF user = NoUser
                     THEN Raise(r0, HTTP_404, "User with this email not found")
                     ELSE [r0 EXCEPT !.pc = "done", !.status = HTTP_200,
                                     !.detail = "check your email",
                                     !.tasks = Append(@, [to |-> user.email,
                                                          username |-> user.username,
                                                          role |-> "user"])]]
    /\ UNCHANGED <<users, cache, now, contacts>>

request_email(p) ==
    /\ rq[p].pc = "idle"
    /\ \E email \in Emails :
         LET r0 == [Idle EXCEPT !.op = "request_email", !.email = email, !.nquery = 1]
             user == get_user_by_email(email)
         IN rq' = [rq EXCEPT ![p] =
                     IF user = NoUser
                     THEN Raise(r0, HTTP_404, "User with this email not found")
                     ELSE IF user.confirmed
                     THEN [r0 EXCEPT !.pc = "done", !.status = HTTP_200,
                                     !.detail = "already confirmed"]
                     ELSE [r0 EXCEPT !.pc = "done", !.status = HTTP_200,
                                     !.detail = "check your email",
                                     !.tasks = Append(@, [to |-> user.email,
                                                          username |-> user.username,
                                                          role |-> "user"])]]
    /\ UNCHANGED <<users, cache, now, contacts>>

\* ---------------------------------------------------------- get_current_user
\* Mutant: the key that is read is not the key that is written, so every
\* lookup misses.
get_current_user_AlwaysMiss(p) ==
    /\ rq[p].pc = "idle"
    /\ \E token \in TokenInputs(now) :
         LET r0 == [Idle EXCEPT !.op = "resolve", !.token = token]
         IN rq' = [rq EXCEPT ![p] =
                     IF JWTError(token, now)
                     THEN Raise(r0, HTTP_401, "Could not validate credentials")
                     ELSE IF KeyError(token) THEN Raise(r0, HTTP_500, "KeyError")
                     ELSE [r0 EXCEPT !.pc = "gcu_db", !.username = token.sub, !.ncget = 1]]
    /\ UNCHANGED <<users, cache, now, contacts>>

\* Entry of the dependency up to the answer of redis_client.get.
get_current_user(p) ==
    /\ rq[p].pc = "idle"
    /\ \E token \in TokenInputs(now) :
         LET r0 == [Idle EXCEPT !.op = "resolve", !.token = token]
             entry == cache[token.sub]
         IN rq' = [rq EXCEPT ![p] =
                     IF JWTError(token, now)
                     THEN Raise(r0, HTTP_401, "Could not validate credentials")
                     ELSE IF KeyError(token) THEN Raise(r0, HTTP_500, "KeyError")
                     ELSE IF entry # NoEntry
                     THEN [r0 EXCEPT !.pc = "done", !.status = HTTP_200,
                                     !.username = token.sub, !.ncget = 1, !.hit = TRUE,
                                     !.resolved = pickle_loads(entry.val)]
                     ELSE [r0 EXCEPT !.pc = "gcu_db", !.username = token.sub, !.ncget = 1]]
    /\ UNCHANGED <<users, cache, now, contacts>>

\* Mutant: the answer of the store is cached before it is checked for None.
get_current_user_query_CacheFirst(p) ==
    /\ rq[p].pc = "gcu_db"
    /\ LET user == get_user_by_username(rq[p].username)
           r0 == [rq[p] EXCEPT !.nquery = @ + 1, !.ncset = @ + 1]
       IN /\ cache' = CacheSet(rq[p].username, pickle_dumps(user), CACHE_TTL, now)
          /\ rq' = [rq EXCEPT ![p] =
                      IF user = NoUser
                      THEN Raise(r0, HTTP_401, "Could not validate credentials")
                      ELSE [r0 EXCEPT !.pc = "done", !.status = HTTP_200, !.user = user,
                                      !.resolved = user]]
    /\ UNCHANGED <<users, now, contacts>>

\* cache miss: user_service.get_user_by_username(username)
get_current_user_query(p) ==
    /\ rq[p].pc = "gcu_db"
    /\ LET user == get_user_by_username(rq[p].username)
           r0 == [rq[p] EXCEPT !.nquery = @ + 1]
       IN rq' = [rq EXCEPT ![p] =
                   IF user = NoUser
                   THEN Raise(r0, HTTP_401, "Could not validate credentials")
                   ELSE [r0 EXCEPT !.pc = "gcu_set", !.user = user]]
    /\ UNCHANGED <<users, cache, now, contacts>>

\* Mutant: the record is cached under the user's e-mail address.
get_current_user_set_EmailKey(p) ==
    /\ rq[p].pc = "gcu_set"
    /\ cache' = CacheSet(rq[p].user.email, pickle_dumps(rq[p].user), CACHE_TTL, now)
    /\ rq' = [rq EXCEPT ![p] = [@ EXCEPT !.pc = "done", !.status = HTTP_200,
                                         !.ncset = @ + 1, !.resolved = rq[p].user]]
    /\ UNCHANGED <<users, now, contacts>>

\* redis_client.set(f"username:{username}", pickle.dumps(user), ex=600); return user
get_current_user_set(p) ==
    /\ rq[p].pc = "gcu_set"
    /\ cache' = CacheSet(rq[p].username, pickle_dumps(rq[p].user), CACHE_TTL, now)
    /\ rq' = [rq EXCEPT ![p] = [@ EXCEPT !.pc = "done", !.status = HTTP_200,
                                         !.ncset = @ + 1, !.resolved = rq[p].user]]
    /\ UNCHANGED <<users, now, contacts>>

\* oauth2_scheme = OAuth2PasswordBearer(...): a request without a bearer token
\* in its Authorization header is answered before get_current_user is entered.
oauth2_scheme(p) ==
    /\ rq[p].pc = "idle"
    /\ rq' = [rq EXCEPT ![p] =
                Raise([Idle EXCEPT !.op = "resolve"], HTTP_401, "Not authenticated")]
    /\ UNCHANGED <<users, cache, now, contacts>>

\* get_current_user while the Redis server cannot be reached: redis_client.get
\* raises redis.exceptions.ConnectionError, which nothing catches.
get_current_user_unreachable(p) ==
    /\ rq[p].pc = "idle"
    /\ \E token \in TokenInputs(now) :
         LET r0 == [Idle EXCEPT !.op = "resolve", !.token = token]
         IN rq' = [rq EXCEPT ![p] =
                     IF JWTError(token, now)
                     THEN Raise(r0, HTTP_401, "Could not validate credentials")
                     ELSE IF KeyError(token) THEN Raise(r0, HTTP_500, "KeyError")
                     ELSE Raise([r0 EXCEPT !.username = token.sub, !.ncget = 1],
                                HTTP_500, "ConnectionError")]
    /\ UNCHANGED <<users, cache, now, contacts>>

\* --------------------------------------------------------------- role gates
\* Mutant: the admin gate lets moderators through as well.
get_current_admin_user_Lenient(p) ==
    /\ rq[p].op = "resolve" /\ rq[p].pc = "done" /\ rq[p].status = HTTP_200
    /\ LET current_user == rq[p].resolved
       IN rq' = [rq EXCEPT ![p] =
                   IF current_user.role \notin {"moderator", "admin"}
                   THEN [@ EXCEPT !.op = "read_admin", !.status = HTTP_403,
                                  !.detail = "Forbidden", !.resolved = NoUser]
                   ELSE [@ EXCEPT !.op = "read_admin", !.detail = "admin route"]]
    /\ UNCHANGED <<users, cache, now, contacts>>

\* GET /auth/moderator: Depends(get_current_moderator_user) on the user that
\* get_current_user returned, then the body of read_moderator.
get_current_moderator_user(p) ==
    /\ rq[p].op = "resolve" /\ rq[p].pc = "done" /\ rq[p].status = HTTP_200
    /\ LET current_user == rq[p].resolved
       IN rq' = [rq EXCEPT ![p] =
                   IF current_user.role \notin {"moderator", "admin"}
                   THEN [@ EXCEPT !.op = "read_moderator", !.status = HTTP_403,
                                  !.detail = "Forbidden", !.resolved = NoUser]
                   ELSE [@ EXCEPT !.op = "read_moderator", !.detail = "moderator route"]]
    /\ UNCHANGED <<users, cache, now, contacts>>

\* GET /auth/admin: Depends(get_current_admin_user), then the body of read_admin.
get_current_admin_user(p) ==
    /\ rq[p].op = "resolve" /\ rq[p].pc = "done" /\ rq[p].status = HTTP_200
    /\ LET current_user == rq[p].resolved
       IN rq' = [rq EXCEPT ![p] =
                   IF current_user.role # "admin"
                   THEN [@ EXCEPT !.op = "read_admin", !.status = HTTP_403,
                                  !.detail = "Forbidden", !.resolved = NoUser]
                   ELSE [@ EXCEPT !.op = "read_admin", !.detail = "admin route"]]
    /\ UNCHANGED <<users, cache, now, contacts>>

\* -------------------------------------------------------- update_avatar_url
\* Mutant: the avatar update purges the user's cache entry.
update_avatar_url_Purge(p) ==
    /\ rq[p].pc = "idle"
    /\ \E i \in DOMAIN users :
         /\ users' = SetAvatar(users[i].email, CloudinaryUrl)
         /\ cache' = [cache EXCEPT ![users[i].username] = NoEntry]
         /\ rq' = [rq EXCEPT ![p] =
                     [Idle EXCEPT !.op = "avatar", !.pc = "done", !.status = HTTP_200,
                                  !.email = users[i].email, !.nquery = 2, !.nwrite = 1,
                                  !.out_user = UserOut(users'[i])]]
    /\ UNCHANGED <<now, contacts>>

\* UserRepository.update_avatar_url(email, url) for the e-mail address of an
\* existing user: user.avatar = url, commit, refresh, return user.
update_avatar_url(p) ==
    /\ rq[p].pc = "idle"
    /\ \E i \in DOMAIN users :
         /\ users' = SetAvatar(users[i].email, CloudinaryUrl)
         /\ rq' = [rq EXCEPT ![p] =
                     [Idle EXCEPT !.op = "avatar", !.pc = "done", !.status = HTTP_200,
                                  !.email = users[i].email, !.nquery = 2, !.nwrite = 1,
                                  !.out_user = UserOut(users'[i])]]
    /\ UNCHANGED <<cache, now, contacts>>

\* --------------------------------------------------------- background tasks
\* The task scheduled with background_tasks.add_task runs once the response
\* has been sent: send_email mints the confirmation token for the address and
\* hands the message to the mail server, which delivers it or fails.
send_email(p) ==
    /\ rq[p].pc = "done"
    /\ rq[p].status \in {HTTP_200, HTTP_201}
    /\ rq[p].nsend < Len(rq[p].tasks)
    /\ \E delivered \in BOOLEAN :
         rq' = [rq EXCEPT ![p] =
                  [@ EXCEPT !.nsend = @ + 1,
                            !.mail = IF delivered
                                     THEN create_email_token(rq[p].tasks[rq[p].nsend + 1].to, now)
                                     ELSE NoToken]]
    /\ UNCHANGED <<users, cache, now, contacts>>

\* ------------------------------------------------------------------ clients
\* The client of slot p keeps the token it was given: the access_token of a
\* login response, or the token of the confirmation mail it received.
Hold(p) ==
    /\ rq[p].pc = "done"
    /\ \/ /\ rq[p].op = "login" /\ rq[p].status = HTTP_200
          /\ rq' = [rq EXCEPT ![p] = [Idle EXCEPT !.op = "client", !.pc = "holding",
                                                   !.token = rq[p].out_token,
                                                   !.minted = "create_access_token"]]
       \/ /\ rq[p].mail # NoToken
          /\ rq' = [rq EXCEPT ![p] = [Idle EXCEPT !.op = "client", !.pc = "holding",
                                                   !.token = rq[p].mail,
                                                   !.minted = "create_email_token"]]
    /\ UNCHANGED <<users, cache, now, contacts>>

\* get_current_user called with the token the client holds, up to the answer
\* of redis_client.get.
get_current_user_bearer(p) ==
    /\ rq[p].pc = "holding"
    /\ LET token == rq[p].token
           r0 == [Idle EXCEPT !.op = "resolve", !.token = token, !.minted = rq[p].minted]
           entry == cache[token.sub]
       IN rq' = [rq EXCEPT ![p] =
                   IF JWTError(token, now)
                   THEN Raise(r0, HTTP_401, "Could not validate credentials")
                   ELSE IF KeyError(token) THEN Raise(r0, HTTP_500, "KeyError")
                   ELSE IF entry # NoEntry
                   THEN [r0 EXCEPT !.pc = "done", !.status = HTTP_200,
                                   !.username = token.sub, !.ncget = 1, !.hit = TRUE,
                                   !.resolved = pickle_loads(entry.val)]
                   ELSE [r0 EXCEPT !.pc = "gcu_db", !.username = token.sub, !.ncget = 1]]
    /\ UNCHANGED <<users, cache, now, contacts>>

\* confirmed_email called with the token the client holds, up to the answer
\* of get_user_by_email.
confirmed_email_link(p) ==
    /\ rq[p].pc = "holding"
    /\ LET token == rq[p].token
           r0 == [Idle EXCEPT !.op = "confirm", !.token = token, !.minted = rq[p].minted]
           r1 == get_email_from_token(r0, token, now)
           user == get_user_by_email(r1.email)
       IN rq' = [rq EXCEPT ![p] =
                   IF r1.pc = "done" THEN r1
                   ELSE IF user = NoUser
                   THEN Raise([r1 EXCEPT !.nquery = 1], HTTP_400, "Verification error")
                   ELSE IF user.confirmed
                   THEN [r1 EXCEPT !.pc = "done", !.status = HTTP_200, !.nquery = 1,
                                   !.detail = "already confirmed"]
                   ELSE [r1 EXCEPT !.pc = "cf_commit", !.nquery = 1]]
    /\ UNCHANGED <<users, cache, now, contacts>>

\* ------------------------------------------------------------- environment
\* The response has been sent; the slot serves the next request.
Return(p) ==
    /\ rq[p].pc = "done"
    /\ rq' = [rq EXCEPT ![p] = Idle]
    /\ UNCHANGED <<users, cache, now, contacts>>

\* Time passes; Redis expires the keys whose time to live has run out.
Tick ==
    /\ now + SecondsPerTick <= MaxTick * SecondsPerTick
    /\ now' = now + SecondsPerTick
    /\ cache' = Expire(cache, now + SecondsPerTick)
    /\ UNCHANGED <<users, rq, contacts>>

\* A finished request is returned before any other request takes a step.
\* Return changes rq[p] alone and no handler reads another request's slot, so
\* this order leaves out no behaviour of the store or of the cache.
Ready == \A q \in Procs : rq[q].pc # "done"

\* The API of src/api/auth.py: concurrent registration, login, confirmation
\* and request_email requests on an initially empty users table, and the
\* background tasks they schedule.
Next ==
    \/ \E p \in Procs : Ready /\ register_user(p)
    \/ \E p \in Procs : Ready /\ register_check_username(p)
    \/ \E p \in Procs : Ready /\ register_create(p)
    \/ \E p \in Procs : Ready /\ register_send(p)
    \/ \E p \in Procs : send_email(p)
    \/ \E p \in Procs : Ready /\ login_user(p)
    \/ \E p \in Procs : Ready /\ confirmed_email(p)
    \/ \E p \in Procs : Ready /\ confirmed_email_commit(p)
    \/ \E p \in Procs : Ready /\ request_email(p)
    \/ \E p \in Procs : Return(p)

Spec == Init /\ [][Next]_vars

\* ------------------------------------------------ the identity resolver
\* The row that registering body leaves in the users table.
Registered(body, id) ==
    [id |-> id, username |-> body.username, email |-> body.email,
     hashed_password |-> get_password_hash(body.password), avatar |-> GravatarUrl,
     confirmed |-> FALSE, role |-> body.role]

Alice == CHOOSE b \in UserCreate : b.username = "alice" /\ b.email = "alice@x"
Bob == CHOOSE b \in UserCreate : b.username = "bob@x" /\ b.email = "bob@x"

\* A fresh cache in front of a users table after one or two registrations.
InitResolver ==
    /\ users \in {<<Registered(Alice, 1)>>, <<Registered(Alice, 1), Registered(Bob, 2)>>}
    /\ cache = [k \in Subs |-> NoEntry]
    /\ now = 0
    /\ rq = [p \in Procs |-> Idle]
    /\ contacts = <<>>

\* Concurrent resolutions of bearer tokens, while users confirm their e-mail
\* address and time passes.
NextResolver ==
    \/ \E p \in Procs : Ready /\ get_current_user(p)
    \/ \E p \in Procs : Ready /\ get_current_user_query(p)
    \/ \E p \in Procs : Ready /\ get_current_user_set(p)
    \/ \E p \in Procs : Ready /\ confirmed_email(p)
    \/ \E p \in Procs : Ready /\ confirmed_email_commit(p)
    \/ \E p \in Procs : Return(p)
    \/ Ready /\ Tick

SpecResolver == InitResolver /\ [][NextResolver]_vars

\* --------------------------------------------------------- the token codec
\* The lifetimes a caller passes to create_access_token: none, zero, one
\* tick, two ticks.
Lifetimes == {None, 0, SecondsPerTick, 2 * SecondsPerTick}

\* await create_access_token(data={"sub": username}, expires_delta) at time now
issue_token(p) ==
    /\ rq[p].pc = "idle"
    /\ \E username \in Usernames, expires_delta \in Lifetimes :
         rq' = [rq EXCEPT ![p] =
                  [Idle EXCEPT !.op = "issue", !.pc = "issued", !.username = username,
                               !.expires_delta = expires_delta, !.issued_at = now,
                               !.out_token = create_access_token(username, expires_delta, now)]]
    /\ UNCHANGED <<users, cache, now, contacts>>

\* jwt.decode(token, settings.JWT_SECRET, algorithms=[...]) of that token at
\* time now, as in get_current_user.
decode_token(p) ==
    /\ rq[p].pc = "issued"
    /\ rq' = [rq EXCEPT ![p] =
                IF JWTError(rq[p].out_token, now)
                THEN Raise([@ EXCEPT !.token = rq[p].out_token], HTTP_401,
                           "Could not validate credentials")
                ELSE [@ EXCEPT !.pc = "done", !.status = HTTP_200,
                               !.token = rq[p].out_token]]
    /\ UNCHANGED <<users, cache, now, contacts>>

NextCodec ==
    \/ \E p \in Procs : Ready /\ issue_token(p)
    \/ \E p \in Procs : Ready /\ decode_token(p)
    \/ \E p \in Procs : Return(p)
    \/ Ready /\ Tick

SpecCodec == Init /\ [][NextCodec]_vars

\* ------------------------------------------------------- the gated routes
\* A users table after one registration of any body, or after two.
InitRoutes ==
    /\ users \in {<<Registered(b, 1)>> : b \in UserCreate}
                  \cup {<<Registered(Alice, 1), Registered(Bob, 2)>>}
    /\ cache = [k \in Subs |-> NoEntry]
    /\ now = 0
    /\ rq = [p \in Procs |-> Idle]
    /\ contacts = <<>>

\* Requests to /auth/moderator and /auth/admin: the dependency get_current_user
\* (which does not see which route it serves), with or without a token, with
\* Redis reachable or not, then the role gate and the route.
NextRoutes ==
    \/ \E p \in Procs : Ready /\ oauth2_scheme(p)
    \/ \E p \in Procs : Ready /\ get_current_user(p)
    \/ \E p \in Procs : Ready /\ get_current_user_unreachable(p)
    \/ \E p \in Procs : Ready /\ get_current_user_query(p)
    \/ \E p \in Procs : Ready /\ get_current_user_set(p)
    \/ \E p \in Procs : get_current_moderator_user(p)
    \/ \E p \in Procs : get_current_admin_user(p)
    \/ \E p \in Procs : Return(p)

SpecRoutes == InitRoutes /\ [][NextRoutes]_vars

\* ------------------------------------------------------- the whole service
\* Alice is registered and has confirmed her address.
InitSystem ==
    /\ users = <<[Registered(Alice, 1) EXCEPT !.confirmed = TRUE]>>
    /\ cache = [k \in Subs |-> NoEntry]
    /\ now = 0
    /\ rq = [p \in Procs |-> Idle]
    /\ contacts = <<>>

\* Every operation on users, tokens and the cache, by clients that keep the
\* tokens they are given and call the role-gated routes, while time passes.
NextSystem ==
    \/ \E p \in Procs : Ready /\ register_user(p)
    \/ \E p \in Procs : Ready /\ register_check_username(p)
    \/ \E p \in Procs : Ready /\ register_create(p)
    \/ \E p \in Procs : Ready /\ register_send(p)
    \/ \E p \in Procs : send_email(p)
    \/ \E p \in Procs : Ready /\ login_user(p)
    \/ \E p \in Procs : Hold(p)
    \/ \E p \in Procs : Ready /\ get_current_user_bearer(p)
    \/ \E p \in Procs : Ready /\ get_current_user_query(p)
    \/ \E p \in Procs : Ready /\ get_current_user_set(p)
    \/ \E p \in Procs : Ready /\ confirmed_email_link(p)
    \/ \E p \in Procs : Ready /\ confirmed_email_commit(p)
    \/ \E p \in Procs : Ready /\ request_email(p)
    \/ \E p \in Procs : Ready /\ update_avatar_url(p)
    \/ \E p \in Procs : get_current_moderator_user(p)
    \/ \E p \in Procs : get_current_admin_user(p)
    \/ \E p \in Procs : Return(p)
    \/ Ready /\ Tick

SpecSystem == InitSystem /\ [][NextSystem]_vars

\* ------------------------------------------------------------ contact routes
\* Every route of src/api/contacts.py depends on get_current_user; user is
\* the record the dependency returned. rq[p].contact is the handler's local
\* variable, rq[p].out_contact what the service returned to the route.

\* POST /contacts/: ContactRepository.create_contact adds the row, commits and
\* refreshes it, then calls get_contact_by_id(contact.id) without the user
\* argument the method requires: TypeError, which ContactsService.create_contact
\* (it catches IntegrityError only) and the route let through.
create_contact(p) ==
    /\ rq[p].pc = "idle"
    /\ Len(contacts) < MaxContacts
    /\ \E i \in DOMAIN users, body \in ContactModel :
         LET user == users[i]
             contact == [id |-> Len(contacts) + 1, first_name |-> body.first_name,
                         birthday |-> body.birthday, user_id |-> user.id]
             r0 == [Idle EXCEPT !.op = "create_contact", !.caller = user.id,
                                !.body = body, !.contact = contact,
                                !.nwrite = 1, !.nquery = 1]
         IN /\ contacts' = Append(contacts, contact)
            /\ rq' = [rq EXCEPT ![p] = Raise(r0, HTTP_500, "TypeError")]
    /\ UNCHANGED <<users, cache, now>>

\* GET /contacts/: filter_by(**query, user=user).offset(skip).limit(limit).
\* The statement has no ORDER BY, so which rows offset and limit keep is up to
\* the database.
get_contacts(p) ==
    /\ rq[p].pc = "idle"
    /\ \E i \in DOMAIN users, first_name \in FirstNames \cup {""},
          skip \in {0, 1}, limit \in {1, 100} :
         LET user == users[i]
             matching == {c \in ContactRows :
                             /\ c.user_id = user.id
                             /\ first_name # "" => c.first_name = first_name}
             rest == IF Cardinality(matching) > skip
                     THEN Cardinality(matching) - skip ELSE 0
             n == IF rest > limit THEN limit ELSE rest
         IN \E page \in {S \in SUBSET matching : Cardinality(S) = n} :
              rq' = [rq EXCEPT ![p] =
                       [Idle EXCEPT !.op = "get_contacts", !.pc = "done",
                                    !.caller = user.id, !.nquery = 1,
                                    !.status = HTTP_200, !.out_contacts = page]]
    /\ UNCHANGED <<users, cache, now, contacts>>

\* GET /contacts/{contact_id}
get_contact(p) ==
    /\ rq[p].pc = "idle"
    /\ \E i \in DOMAIN users, contact_id \in ContactIds :
         LET user == users[i]
             contact == get_contact_by_id(contact_id, user)
             r0 == [Idle EXCEPT !.op = "get_contact", !.caller = user.id,
                                !.contact_id = contact_id, !.nquery = 1,
                                !.contact = contact]
         IN rq' = [rq EXCEPT ![p] =
                     IF contact = NoContact
                     THEN Raise(r0, HTTP_404, "Contact not found")
                     ELSE IF ResponseValidContact(contact)
                     THEN [r0 EXCEPT !.pc = "done", !.status = HTTP_200,
                                     !.out_contact = contact]
                     ELSE Raise([r0 EXCEPT !.out_contact = contact],
                                HTTP_500, "ResponseValidationError")]
    /\ UNCHANGED <<users, cache, now, contacts>>

\* PATCH /contacts/{contact_id}: update_contact up to the answer of
\* get_contact_by_id.
update_contact(p) ==
    /\ rq[p].pc = "idle"
    /\ \E i \in DOMAIN users, contact_id \in ContactIds, body \in ContactModel :
         LET user == users[i]
             contact == get_contact_by_id(contact_id, user)
             r0 == [Idle EXCEPT !.op = "update_contact", !.caller = user.id,
                                !.contact_id = contact_id, !.body = body,
                                !.nquery = 1, !.contact = contact]
         IN rq' = [rq EXCEPT ![p] =
                     IF contact = NoContact
                     THEN Raise(r0, HTTP_404, "Contact not found")
                     ELSE [r0 EXCEPT !.pc = "upd_commit"]]
    /\ UNCHANGED <<users, cache, now, contacts>>

\* Mutant: the UPDATE has no WHERE id = ... and rewrites every contact of the
\* owner.
update_contact_commit_AllOfOwner(p) ==
    /\ rq[p].pc = "upd_commit"
    /\ LET id == rq[p].contact.id
           body == rq[p].body
           row == contacts[id]
           updated == [row EXCEPT !.first_name = body.first_name,
                                  !.birthday = body.birthday]
       IN IF row = NoContact
          THEN /\ rq' = [rq EXCEPT ![p] = Raise(rq[p], HTTP_500, "StaleDataError")]
               /\ UNCHANGED contacts
          ELSE /\ contacts' = [j \in DOMAIN contacts |->
                                 IF contacts[j] # NoContact /\ contacts[j].user_id = row.user_id
                                 THEN [contacts[j] EXCEPT !.first_name = body.first_name,
                                                          !.birthday = body.birthday]
                                 ELSE contacts[j]]
               /\ rq' = [rq EXCEPT ![p] =
                           LET r0 == [@ EXCEPT !.nwrite = @ + 1, !.nquery = @ + 1,
                                               !.contact = updated,
                                               !.out_contact = updated]
                           IN IF ResponseValidContact(updated)
                              THEN [r0 EXCEPT !.pc = "done", !.status = HTTP_200]
                              ELSE Raise(r0, HTTP_500, "ResponseValidationError")]
    /\ UNCHANGED <<users, cache, now>>

\* setattr(contact, key, value) for every field of the body, commit, refresh,
\* return contact. The UPDATE carries the attributes whose value differs from
\* the one that was loaded; it fails (StaleDataError) when the row has been
\* deleted since.
update_contact_commit(p) ==
    /\ rq[p].pc = "upd_commit"
    /\ LET id == rq[p].contact.id
           loaded == rq[p].contact
           body == rq[p].body
           row == contacts[id]
           updated == [row EXCEPT
                         !.first_name = IF body.first_name # loaded.first_name
                                        THEN body.first_name ELSE @,
                         !.birthday = IF body.birthday # loaded.birthday
                                      THEN body.birthday ELSE @]
       IN IF row = NoContact
          THEN /\ rq' = [rq EXCEPT ![p] = Raise(rq[p], HTTP_500, "StaleDataError")]
               /\ UNCHANGED contacts
          ELSE /\ contacts' = [contacts EXCEPT ![id] = updated]
               /\ rq' = [rq EXCEPT ![p] =
                           LET r0 == [@ EXCEPT !.nwrite = @ + 1, !.nquery = @ + 1,
                                               !.contact = updated,
                                               !.out_contact = updated]
                           IN IF ResponseValidContact(updated)
                              THEN [r0 EXCEPT !.pc = "done", !.status = HTTP_200]
                              ELSE Raise(r0, HTTP_500, "ResponseValidationError")]
    /\ UNCHANGED <<users, cache, now>>

\* DELETE /contacts/{contact_id}: remove_contact up to the answer of
\* get_contact_by_id.
remove_contact(p) ==
    /\ rq[p].pc = "idle"
    /\ \E i \in DOMAIN users, contact_id \in ContactIds :
         LET user == users[i]
             contact == get_contact_by_id(contact_id, user)
             r0 == [Idle EXCEPT !.op = "remove_contact", !.caller = user.id,
                                !.contact_id = contact_id, !.nquery = 1,
                                !.contact = contact]
         IN rq' = [rq EXCEPT ![p] =
                     IF contact = NoContact
                     THEN Raise(r0, HTTP_404, "Requested contact not found")
                     ELSE [r0 EXCEPT !.pc = "rm_commit"]]
    /\ UNCHANGED <<users, cache, now, contacts>>

\* Mutant: the commit is made without db.delete(contact).
remove_contact_commit_NoDelete(p) ==
    /\ rq[p].pc = "rm_commit"
    /\ LET contact == rq[p].contact
       IN rq' = [rq EXCEPT ![p] =
                   LET r0 == [@ EXCEPT !.nwrite = @ + 1, !.out_contact = contact]
                   IN IF ResponseValidContact(contact)
                      THEN [r0 EXCEPT !.pc = "done", !.status = HTTP_200]
                      ELSE Raise(r0, HTTP_500, "ResponseValidationError")]
    /\ UNCHANGED <<users, cache, now, contacts>>

\* db.delete(contact), commit, return contact. A DELETE that matches no row,
\* because the row has been deleted since, is not an error.
remove_contact_commit(p) ==
    /\ rq[p].pc = "rm_commit"
    /\ LET contact == rq[p].contact
       IN /\ contacts' = [contacts EXCEPT ![contact.id] = NoContact]
          /\ rq' = [rq EXCEPT ![p] =
                      LET r0 == [@ EXCEPT !.nwrite = @ + 1, !.out_contact = contact]
                      IN IF ResponseValidContact(contact)
                         THEN [r0 EXCEPT !.pc = "done", !.status = HTTP_200]
                         ELSE Raise(r0, HTTP_500, "ResponseValidationError")]
    /\ UNCHANGED <<users, cache, now>>

\* GET /contacts/upcoming_birthdays/: date.today(), then
\* select(Contact).filter(and_(...), user=user). Select.filter takes criteria
\* only, no keyword arguments: TypeError before any statement is executed.
get_contacts_with_upcoming_birthdays(p) ==
    /\ rq[p].pc = "idle"
    /\ \E i \in DOMAIN users, today \in Todays :
         LET user == users[i]
             r0 == [Idle EXCEPT !.op = "upcoming_birthdays", !.caller = user.id,
                                !.today = today]
         IN rq' = [rq EXCEPT ![p] = Raise(r0, HTTP_500, "TypeError")]
    /\ UNCHANGED <<users, cache, now, contacts>>

\* Alice and Bob are registered and confirmed; the contacts table is empty.
InitContacts ==
    /\ users = <<[Registered(Alice, 1) EXCEPT !.confirmed = TRUE],
                 [Registered(Bob, 2) EXCEPT !.confirmed = TRUE]>>
    /\ cache = [k \in Subs |-> NoEntry]
    /\ now = 0
    /\ rq = [p \in Procs |-> Idle]
    /\ contacts = <<>>

\* Concurrent requests of both users to the routes of src/api/contacts.py.
NextContacts ==
    \/ \E p \in Procs : Ready /\ create_contact(p)
    \/ \E p \in Procs : Ready /\ get_contacts(p)
    \/ \E p \in Procs : Ready /\ get_contact(p)
    \/ \E p \in Procs : Ready /\ update_contact(p)
    \/ \E p \in Procs : Ready /\ update_contact_commit(p)
    \/ \E p \in Procs : Ready /\ remove_contact(p)
    \/ \E p \in Procs : Ready /\ remove_contact_commit(p)
    \/ \E p \in Procs : Ready /\ get_contacts_with_upcoming_birthdays(p)
    \/ \E p \in Procs : Return(p)

SpecContacts == InitContacts /\ [][NextContacts]_vars

\* ================================================================== claims
\* Step(p): this step is taken by the request in slot p.
Step(p) == rq'[p] # rq[p]

\* C1: in every reachable state of the users table, under any interleaving of
\* registration, login, confirmation and request_email requests, no two
\* distinct user records have the same username and no two have the same email.
C1_UniqueUsernameAndEmail ==
    \A i, j \in DOMAIN users :
        i # j => /\ users[i].username # users[j].username
                 /\ users[i].email # users[j].email

\* Two users are registered and a third registration, which passed both
\* existence checks concurrently, was stopped by the table's constraints.
C1_Witness ==
    /\ Len(users) = 2
    /\ \E p \in Procs : rq[p].op = "register" /\ rq[p].detail = "IntegrityError"

\* C2: register_user called with the e-mail address or the username of an
\* existing user ends with 409 Conflict, inserts no user record, changes no
\* existing user record and schedules no confirmation e-mail.
C2_State ==
    \A p \in Procs :
        rq[p].op = "register" /\ rq[p].taken =>
            /\ rq[p].pc \in {"reg_username", "done"}
            /\ rq[p].nwrite = 0
            /\ rq[p].tasks = <<>>
            /\ rq[p].pc = "done" =>
                  /\ rq[p].status = HTTP_409
                  /\ rq[p].detail \in {"email exists", "username exists"}

C2_Step ==
    \A p \in Procs :
        Step(p) /\ rq'[p].op = "register" /\ rq'[p].taken => users' = users

C2_ConflictRejected == []C2_State /\ [][C2_Step]_vars

\* A registration with a fresh e-mail address and a taken username was
\* rejected by the second check.
C2_Witness ==
    \E p \in Procs :
        /\ rq[p].op = "register" /\ rq[p].taken /\ rq[p].pc = "done"
        /\ rq[p].status = HTTP_409 /\ rq[p].detail = "username exists"
        /\ users # <<>>

C3_Insert ==
    \A p \in Procs :
        Step(p) /\ rq[p].pc = "reg_create" /\ ~Taken(rq[p].username, rq[p].email) =>
            /\ Len(users') = Len(users) + 1
            /\ \A i \in DOMAIN users : users'[i] = users[i]
            /\ LET u == users'[Len(users')]
               IN /\ u.username = rq[p].username
                  /\ u.email = rq[p].email
                  /\ u.role = rq[p].role
                  /\ u.confirmed = FALSE
                  /\ verify_password(rq[p].password, u.hashed_password)
                  /\ u.hashed_password # rq[p].password
            /\ rq'[p].nwrite = 1
            /\ rq'[p].tasks = <<>>

C3_OtherSteps ==
    \A p \in Procs :
        Step(p) /\ rq'[p].op = "register" /\ rq[p].pc # "reg_create" => users' = users

C3_State ==
    \A p \in Procs :
        rq[p].op = "register" =>
            /\ rq[p].nwrite <= 1
            /\ Len(rq[p].tasks) <= 1
            /\ rq[p].pc = "done" /\ rq[p].nwrite = 1 => Len(rq[p].tasks) = 1
            /\ rq[p].tasks # <<>> =>
                  /\ rq[p].nwrite = 1
                  /\ rq[p].tasks[1].to = rq[p].email
                  /\ rq[p].tasks[1].username = rq[p].username
                  /\ \E i \in DOMAIN users : /\ users[i].username = rq[p].username
                                             /\ users[i].email = rq[p].email
            /\ "hashed_password" \notin DOMAIN rq[p].out_user
            /\ rq[p].status = HTTP_201 =>
                  /\ rq[p].out_user.username = rq[p].username
                  /\ rq[p].out_user.email = rq[p].email

C4_Step ==
    \A p \in Procs :
        rq[p].pc = "idle" /\ rq'[p].op = "login" =>
            LET r == rq'[p]
                Verified == {i \in DOMAIN users :
                               /\ users[i].username = r.username
                               /\ verify_password(r.password, users[i].hashed_password)}
            IN /\ r.pc = "done"
               /\ users' = users /\ cache' = cache
               /\ r.nwrite = 0 /\ r.ncset = 0 /\ r.tasks = <<>>
               /\ Verified = {} =>
                     r.status = HTTP_401 /\ r.detail = "wrong login or password"
               /\ (\E i \in Verified : ~users[i].confirmed) =>
                     r.status = HTTP_401 /\ r.detail = "email not confirmed"
               /\ (\E i \in Verified : users[i].confirmed) =>
                     /\ r.status = HTTP_200
                     /\ r.out_token.form = "ok"
                     /\ r.out_token.sub = r.username
                     /\ r.out_token.exp >= now
               /\ r.status # HTTP_200 => r.out_token = NoToken

C4_LoginOnlyConfirmed == [][C4_Step]_vars

\* A login has been answered with a token for its username.
C4_Witness ==
    \E p \in Procs :
        /\ rq[p].op = "login" /\ rq[p].status = HTTP_200
        /\ rq[p].out_token.sub = rq[p].username

\* C5: a user's confirmed flag is false at creation, changes at most once,
\* from false to true, only in the commit of the e-mail confirmation flow for
\* that user's address, and is never set back to false.
C5_Step ==
    \A i \in DOMAIN users' :
        IF i \in DOMAIN users
        THEN /\ users[i].confirmed => users'[i].confirmed
             /\ users'[i].confirmed # users[i].confirmed =>
                   \E p \in Procs : /\ Step(p)
                                    /\ rq[p].op = "confirm" /\ rq[p].pc = "cf_commit"
                                    /\ rq[p].email = users[i].email
        ELSE users'[i].confirmed = FALSE

C5_ConfirmedOnlyRises == [][C5_Step]_vars

\* A confirmation has flipped a user's flag.
C5_Witness ==
    /\ \E i \in DOMAIN users : users[i].confirmed
    /\ \E p \in Procs : rq[p].op = "confirm" /\ rq[p].detail = "confirmed"

\* C6: confirmed_email(token) ends in exactly one of: 422 for a token that
\* does not decode, 400 for a decoded e-mail address no user has, a success
\* message for an already confirmed user, or a success message after setting
\* that user's confirmed flag.
C6_Decodes(token) == token.form = "ok" /\ token.exp >= now

C6_ExactlyTheseOutcomes ==
    \A p \in Procs :
        rq[p].op = "confirm" /\ rq[p].pc = "done" =>
            \/ rq[p].status = HTTP_422 /\ ~C6_Decodes(rq[p].token)
            \/ rq[p].status = HTTP_400 /\ C6_Decodes(rq[p].token)
            \/ /\ rq[p].status = HTTP_200 /\ C6_Decodes(rq[p].token)
               /\ \E i \in DOMAIN users :
                     users[i].email = rq[p].token.sub /\ users[i].confirmed

\* C7: get_current_user answers 401 for every token whose signature does not
\* verify, that is malformed, or that is expired, with the same outcome in
\* all three cases, and then reads neither the cache nor the store and
\* writes nothing.
C7_Undecodable(token) == token.form # "ok" \/ token.exp < now

C7_State ==
    \A p \in Procs :
        rq[p].op = "resolve" /\ C7_Undecodable(rq[p].token) =>
            /\ rq[p].pc = "done"
            /\ rq[p].status = HTTP_401
            /\ rq[p].detail = "Could not validate credentials"
            /\ rq[p].resolved = NoUser
            /\ rq[p].ncget = 0 /\ rq[p].nquery = 0
            /\ rq[p].ncset = 0 /\ rq[p].nwrite = 0

C7_Step ==
    \A p \in Procs :
        Step(p) /\ rq'[p].op = "resolve" /\ C7_Undecodable(rq'[p].token) =>
            cache' = cache /\ users' = users

C7_BadTokenUnauthorized == []C7_State /\ [][C7_Step]_vars

\* An expired token of a registered, cached user has been answered with 401.
C7_Witness ==
    \E p \in Procs :
        /\ rq[p].op = "resolve" /\ rq[p].token.form = "ok" /\ rq[p].token.exp < now
        /\ rq[p].status = HTTP_401
        /\ rq[p].token.sub \in DOMAIN cache
        /\ cache[rq[p].token.sub] # NoEntry

\* C8: get_current_user answers 401 for a token that verifies and is
\* unexpired but carries no sub claim, and never any other error.
C8_NoSubUnauthorized ==
    \A p \in Procs :
        /\ rq[p].op = "resolve" /\ rq[p].pc = "done"
        /\ rq[p].token.form = "ok" /\ rq[p].token.exp >= now
        /\ rq[p].token.sub = NoSub
        => rq[p].status = HTTP_401

\* C9: on a cache miss get_current_user queries the store by the token's
\* username; without such a user it answers 401 and the cache keeps no entry
\* for that username; otherwise it writes a copy of the record it read to the
\* cache under that username with a time to live of 600 seconds and returns
\* that user.
C9_Query ==
    \A p \in Procs :
        Step(p) /\ rq[p].pc = "gcu_db" =>
            LET Rows == {i \in DOMAIN users : users[i].username = rq[p].username}
            IN /\ rq[p].ncget = 1 /\ ~rq[p].hit /\ rq[p].nquery = 0
               /\ rq'[p].nquery = 1
               /\ IF Rows = {}
                  THEN /\ rq'[p].pc = "done" /\ rq'[p].status = HTTP_401
                       /\ rq'[p].resolved = NoUser /\ rq'[p].ncset = 0
                       /\ cache' = cache
                       /\ cache'[rq[p].username] = NoEntry
                  ELSE /\ rq'[p].pc = "gcu_set"
                       /\ \E i \in Rows : rq'[p].user = users[i]
                       /\ cache' = cache

C9_Set ==
    \A p \in Procs :
        Step(p) /\ rq[p].pc = "gcu_set" =>
            /\ pickle_loads(cache'[rq[p].username].val) = rq[p].user
            /\ cache'[rq[p].username].exp = now + CACHE_TTL
            /\ \A k \in DOMAIN cache : k # rq[p].username => cache'[k] = cache[k]
            /\ rq'[p].pc = "done" /\ rq'[p].status = HTTP_200
            /\ rq'[p].resolved = rq[p].user
            /\ rq'[p].resolved.username = rq[p].token.sub
            /\ rq'[p].ncset = 1 /\ rq'[p].nquery = 1

C9_MissReadsThrough == [][C9_Query /\ C9_Set]_vars

\* A resolution missed the cache, read the store and left its copy in the
\* cache, while the cache holds no entry for a name the store does not know.
C9_Witness ==
    \E q \in Procs :
        /\ rq[q].op = "resolve" /\ rq[q].pc = "done" /\ rq[q].status = HTTP_200
        /\ rq[q].nquery = 1 /\ rq[q].ncset = 1
        /\ cache[rq[q].username].val = pickle_dumps(rq[q].resolved)
        /\ cache[rq[q].username].exp = now + CACHE_TTL
        /\ cache["alice@x"] = NoEntry

\* C10: from an empty cache and a store holding U, the first resolution of a
\* valid token for U queries the store once and populates the cache; every
\* later resolution for that username that starts less than 600 seconds after
\* that write returns the cached copy without a store query.
C10_Hit ==
    \A p \in Procs :
        rq[p].pc = "idle" /\ rq'[p].op = "resolve" =>
            LET token == rq'[p].token
            IN /\ token.form = "ok" /\ token.exp >= now /\ token.sub # NoSub
               /\ cache[token.sub] # NoEntry
               => /\ rq'[p].pc = "done" /\ rq'[p].status = HTTP_200
                  /\ rq'[p].hit /\ rq'[p].nquery = 0 /\ rq'[p].ncset = 0
                  /\ rq'[p].resolved = pickle_loads(cache[token.sub].val)
                  /\ cache' = cache

C10_EntryLives ==
    \A k \in DOMAIN cache :
        cache[k] # NoEntry /\ now' < cache[k].exp => cache'[k] # NoEntry

C10_State ==
    /\ \A k \in DOMAIN cache :
          cache[k] # NoEntry => now < cache[k].exp /\ cache[k].exp <= now + CACHE_TTL
    /\ \A p \in Procs :
          rq[p].op = "resolve" /\ rq[p].pc = "done" /\ rq[p].status = HTTP_200 =>
              \/ rq[p].hit /\ rq[p].nquery = 0 /\ rq[p].ncset = 0
              \/ ~rq[p].hit /\ rq[p].nquery = 1 /\ rq[p].ncset = 1

C10_CachedWithinTtl == []C10_State /\ [][C10_Hit /\ C10_EntryLives]_vars

\* After the first resolution populated the cache and time has passed, a
\* second one was served from the cache without a store query.
C10_Witness ==
    \E p \in Procs :
        /\ rq[p].op = "resolve" /\ rq[p].pc = "done" /\ rq[p].hit
        /\ rq[p].nquery = 0 /\ rq[p].resolved.username = rq[p].token.sub
        /\ now > 0 /\ cache[rq[p].username].exp = CACHE_TTL

\* C11: registration, login, e-mail confirmation, request_email and the avatar
\* update never read, write or delete a cache entry: an entry written by the
\* resolver stays exactly as written until its time to live runs out or the
\* resolver writes it again, while the user's confirmed flag or avatar
\* changes in the store, and a resolution that finds it returns that copy.
C11_Frame ==
    \A p \in Procs :
        /\ Step(p)
        /\ rq'[p].op \in {"register", "login", "confirm", "request_email", "avatar", "client"}
        => /\ cache' = cache
           /\ rq'[p].ncget = 0 /\ rq'[p].ncset = 0

C11_EntryKept ==
    \A k \in DOMAIN cache :
        cache'[k] # cache[k] =>
            \/ \E p \in Procs : Step(p) /\ rq[p].pc = "gcu_set" /\ rq[p].username = k
            \/ now' # now /\ cache[k].exp <= now' /\ cache'[k] = NoEntry

C11_Stale ==
    \A p \in Procs :
        /\ rq[p].pc = "holding" /\ rq'[p].op = "resolve"
        /\ ~JWTError(rq[p].token, now) /\ cache[rq[p].token.sub] # NoEntry
        => /\ rq'[p].resolved = pickle_loads(cache[rq[p].token.sub].val)
           /\ rq'[p].status = HTTP_200 /\ rq'[p].nquery = 0
           /\ cache' = cache

C11_NoInvalidation == [][C11_Frame /\ C11_EntryKept /\ C11_Stale]_vars

\* A resolution was served a cached copy whose avatar is no longer the one in
\* the store.
C11_Witness ==
    \E p \in Procs :
        /\ rq[p].op = "resolve" /\ rq[p].pc = "done" /\ rq[p].hit
        /\ rq[p].resolved.avatar # get_user_by_username(rq[p].username).avatar
        /\ cache[rq[p].username].val = pickle_dumps(rq[p].resolved)

\* C12: staleness is bounded by the time to live: every cache entry is gone
\* 600 seconds after it was written, so get_current_user never returns a copy
\* cached 600 seconds or more earlier, and a resolution that starts after the
\* entry expired reads the store and returns the record the store holds.
C12_Written(entry) == entry.exp - CACHE_TTL

C12_State ==
    \A k \in DOMAIN cache :
        cache[k] # NoEntry =>
            C12_Written(cache[k]) <= now /\ now - C12_Written(cache[k]) < CACHE_TTL

C12_Served ==
    \A p \in Procs :
        rq[p].pc = "idle" /\ rq'[p].op = "resolve" /\ rq'[p].ncget = 1 =>
            LET entry == cache[rq'[p].token.sub]
            IN IF entry # NoEntry
               THEN /\ rq'[p].hit
                    /\ rq'[p].resolved = pickle_loads(entry.val)
                    /\ now - C12_Written(entry) < CACHE_TTL
               ELSE /\ ~rq'[p].hit /\ rq'[p].pc = "gcu_db"
                    /\ rq'[p].resolved = NoUser

C12_ReadsStore ==
    \A p \in Procs :
        Step(p) /\ rq[p].pc = "gcu_db" /\ rq'[p].pc # "done" =>
            /\ rq'[p].user = get_user_by_username(rq[p].username)
            /\ rq'[p].user \in {users[i] : i \in DOMAIN users}

C12_Returns ==
    \A p \in Procs :
        Step(p) /\ rq[p].pc = "gcu_set" => rq'[p].resolved = rq[p].user

C12_BoundedStaleness ==
    []C12_State /\ [][C12_Served /\ C12_ReadsStore /\ C12_Returns]_vars

\* Ten minutes after the start a resolution missed the cache and returned the
\* confirmed record the store holds by then.
C12_Witness ==
    \E p \in Procs :
        /\ rq[p].op = "resolve" /\ rq[p].pc = "done" /\ ~rq[p].hit
        /\ rq[p].status = HTTP_200 /\ rq[p].nquery = 1
        /\ now >= CACHE_TTL
        /\ rq[p].resolved.confirmed
        /\ rq[p].resolved = get_user_by_username(rq[p].username)

\* C13: for every resolved user and every role, get_current_moderator_user
\* returns the user unchanged if and only if the role is moderator or admin
\* and otherwise fails with 403; get_current_admin_user returns the user
\* unchanged if and only if the role is admin and otherwise fails with 403.
C13_Gate(p, route, allowed) ==
    Step(p) /\ rq'[p].op = route =>
        LET current_user == rq[p].resolved
        IN /\ rq[p].op = "resolve" /\ current_user.role \in UserRole
           /\ IF current_user.role \in allowed
              THEN rq'[p].status = HTTP_200 /\ rq'[p].resolved = current_user
              ELSE rq'[p].status = HTTP_403 /\ rq'[p].resolved = NoUser
           /\ users' = users /\ cache' = cache

C13_Step ==
    \A p \in Procs : /\ C13_Gate(p, "read_moderator", {"moderator", "admin"})
                      /\ C13_Gate(p, "read_admin", {"admin"})

C13_RoleGates == [][C13_Step]_vars

\* A moderator has been refused by the admin-only route.
C13_Witness ==
    \E p \in Procs :
        /\ rq[p].op = "read_admin" /\ rq[p].status = HTTP_403
        /\ get_user_by_username(rq[p].username).role = "moderator"

\* C14: a request to a role-gated route that carries no token, or a token
\* the resolver does not accept (undecodable, without sub, or naming no user),
\* ends in 401.
C14_Rejected(r) ==
    \/ r.token = NoToken
    \/ r.token.form # "ok" \/ r.token.exp < now
    \/ r.token.sub = NoSub
    \/ get_user_by_username(r.token.sub) = NoUser

C14_RejectedIsUnauthorized ==
    \A p \in Procs :
        rq[p].pc = "done" /\ rq[p].op \in {"resolve", "read_moderator", "read_admin"}
        /\ C14_Rejected(rq[p])
        => rq[p].status = HTTP_401

\* C14, the part that holds: for such a request the role check is never
\* evaluated, 403 is never returned and the route body never runs.
C14_NoGateWithoutUser ==
    \A p \in Procs :
        C14_Rejected(rq[p]) =>
            /\ rq[p].op \notin {"read_moderator", "read_admin"}
            /\ rq[p].status # HTTP_403
            /\ rq[p].detail \notin {"moderator route", "admin route"}

\* C18: when the cache store is unreachable or its get fails, get_current_user
\* treats this as a cache miss: it queries the store and returns the user
\* found there, or 401 if there is none, and never fails with the cache error.
C18_CacheErrorIsMiss ==
    \A p \in Procs :
        rq[p].op = "resolve" /\ rq[p].pc = "done" /\ rq[p].ncget = 1 /\ ~rq[p].hit =>
            /\ rq[p].nquery = 1
            /\ \/ rq[p].status = HTTP_200
                  /\ rq[p].resolved \in {users[i] : i \in DOMAIN users}
               \/ rq[p].status = HTTP_401
                  /\ get_user_by_username(rq[p].username) = NoUser

\* C15: for every ttl T passed to create_access_token, the token issued at
\* time t decodes at every check time before t + T and is rejected at every
\* check time after t + T; the configured default expiration is used in
\* place of T only when no ttl is passed.
C15_TtlHonoured ==
    \A p \in Procs :
        rq[p].op = "issue" =>
            LET T == rq[p].expires_delta
                t == rq[p].issued_at
            IN /\ T = None => rq[p].out_token.exp = t + JWT_EXPIRATION_SECONDS
               /\ T # None =>
                     /\ rq[p].out_token.exp = t + T
                     /\ rq[p].pc = "done" /\ now < t + T => rq[p].status = HTTP_200
                     /\ rq[p].pc = "done" /\ now > t + T => rq[p].status = HTTP_401

\* C15, the part that holds: the same for every ttl other than 0.
C15_NonZeroTtlHonoured ==
    \A p \in Procs :
        rq[p].op = "issue" /\ rq[p].expires_delta \notin {None, 0} =>
            LET T == rq[p].expires_delta
                t == rq[p].issued_at
            IN /\ rq[p].out_token.exp = t + T
               /\ rq[p].pc = "done" /\ now < t + T => rq[p].status = HTTP_200
               /\ rq[p].pc = "done" /\ now > t + T => rq[p].status = HTTP_401

\* C16: a session token issued by login for user U is accepted by
\* get_current_user at every time before its exp, whatever registrations,
\* logins, confirmations, request_email calls, avatar updates or other
\* resolutions happen in between: nothing revokes a token before its expiry.
C16_Step ==
    \A p \in Procs :
        /\ rq[p].pc = "holding" /\ rq[p].minted = "create_access_token"
        /\ rq'[p].op = "resolve" /\ now < rq[p].token.exp
        => /\ rq'[p].token = rq[p].token
           /\ rq'[p].ncget = 1
           /\ rq'[p].status # HTTP_401

C16_State ==
    \A p \in Procs :
        rq[p].op = "resolve" /\ rq[p].minted = "create_access_token" /\ rq[p].ncget = 1 =>
            /\ get_user_by_username(rq[p].token.sub) # NoUser
            /\ rq[p].pc = "done" =>
                  /\ rq[p].status = HTTP_200
                  /\ rq[p].resolved.username = rq[p].token.sub

C16_NoRevocation == []C16_State /\ [][C16_Step]_vars

\* Ten minutes after the login that issued it, after a registration and an
\* avatar update, the token is still accepted.
C16_Witness ==
    \E p \in Procs :
        /\ rq[p].op = "resolve" /\ rq[p].minted = "create_access_token"
        /\ rq[p].pc = "done" /\ rq[p].status = HTTP_200
        /\ rq[p].token.exp = JWT_EXPIRATION_SECONDS /\ now = 2 * SecondsPerTick
        /\ Len(users) = 2
        /\ get_user_by_username(rq[p].token.sub).avatar = CloudinaryUrl

\* C17: get_current_user never resolves a user from a token minted by
\* create_email_token, and confirmed_email never confirms a user from a token
\* minted by create_access_token, for any registered usernames and e-mail
\* addresses.
C17_TokenKindsSeparate ==
    \A p \in Procs :
        /\ rq[p].op = "resolve" /\ rq[p].minted = "create_email_token" =>
              rq[p].resolved = NoUser /\ rq[p].status # HTTP_200
        /\ rq[p].op = "confirm" /\ rq[p].minted = "create_access_token" =>
              rq[p].pc # "cf_commit" /\ rq[p].detail # "confirmed"

\* C19: if the avatar lookup fails during registration, the user is still
\* persisted with no avatar and registration still succeeds with 201.
C19_AvatarFailureStill201 ==
    \A p \in Procs :
        /\ rq[p].op = "register" /\ rq[p].pc = "done" /\ rq[p].nwrite = 1
        /\ rq[p].user.avatar = NoAvatar
        => /\ rq[p].status = HTTP_201
           /\ \E i \in DOMAIN users : /\ users[i].username = rq[p].username
                                      /\ users[i].avatar = NoAvatar

\* C20: the confirmation e-mail is sent outside the registration request:
\* the send starts only after the response is decided and, delivered or
\* failed or never run, leaves the 201, the response body and the persisted
\* record as they are; a send is attempted at most once per scheduled task
\* and one task is scheduled per successful registration.
C20_Send ==
    \A p \in Procs :
        Step(p) /\ rq'[p].nsend > rq[p].nsend =>
            /\ rq[p].pc = "done" /\ rq'[p].pc = "done"
            /\ rq[p].status \in {HTTP_200, HTTP_201}
            /\ rq'[p].status = rq[p].status
            /\ rq'[p].out_user = rq[p].out_user
            /\ rq'[p].tasks = rq[p].tasks
            /\ rq'[p].nsend = rq[p].nsend + 1
            /\ users' = users /\ cache' = cache

C20_State ==
    \A p \in Procs :
        /\ rq[p].nsend <= Len(rq[p].tasks)
        /\ Len(rq[p].tasks) <= 1
        /\ rq[p].op = "register" /\ rq[p].status = HTTP_201 =>
              /\ Len(rq[p].tasks) = 1
              /\ rq[p].tasks[1].to = rq[p].email
              /\ \E i \in DOMAIN users : /\ users[i].username = rq[p].username
                                         /\ users[i].email = rq[p].email
                                         /\ UserOut(users[i]).id = rq[p].out_user.id
        /\ rq[p].op = "register" /\ rq[p].status \notin {0, HTTP_201} => rq[p].nsend = 0

C21_Handler ==
    \A p \in Procs :
        (rq[p].pc = "idle" /\ rq'[p].op = "request_email") =>
            LET r == rq'[p]
                user == get_user_by_email(r.email)
            IN /\ users' = users /\ cache' = cache /\ r.nwrite = 0
               /\ r.pc = "done"
               /\ user = NoUser =>
                     /\ r.status = HTTP_404
                     /\ r.detail = "User with this email not found"
                     /\ r.tasks = <<>>
               /\ (user # NoUser /\ user.confirmed) =>
                     /\ r.status = HTTP_200
                     /\ r.detail = "already confirmed"
                     /\ r.tasks = <<>>
               /\ (user # NoUser /\ ~user.confirmed) =>
                     /\ r.status = HTTP_200
                     /\ Len(r.tasks) = 1
                     /\ r.tasks[1].to = user.email
                     /\ r.tasks[1].username = user.username

C21_Afterwards ==
    \A p \in Procs :
        (rq[p].op = "request_email" /\ Step(p)) =>
            /\ users' = users /\ cache' = cache
            /\ rq'[p].op = "request_email" => rq'[p].tasks = rq[p].tasks

C21_State ==
    \A p \in Procs :
        rq[p].op = "request_email" =>
            /\ rq[p].nwrite = 0
            /\ Len(rq[p].tasks) <= 1
            /\ rq[p].nsend <= Len(rq[p].tasks)

C28_RaceLoserGetsConflict ==
    \A p \in Procs :
        (/\ rq[p].op = "register" /\ rq[p].pc = "done"
         /\ rq[p].hashed # NoHash /\ rq[p].nwrite = 0) =>
            rq[p].status = HTTP_409

\* C30: whenever get_current_user returns a user, that user's username is the
\* sub of the presented token, and every cache entry stored under the key of
\* username u holds a record whose username is u, under any interleaving of
\* resolutions for different users.
C30_Returned ==
    \A p \in Procs :
        (rq[p].op = "resolve" /\ rq[p].pc = "done" /\ rq[p].status = HTTP_200) =>
            /\ rq[p].resolved # NoUser
            /\ rq[p].resolved.username = rq[p].token.sub

C30_Cached ==
    \A u \in DOMAIN cache :
        cache[u] # NoEntry => pickle_loads(cache[u].val).username = u

C30_KeyMatchesRecord == C30_Returned /\ C30_Cached

\* Both users have a cache entry, and a resolution has been served from one
\* while a resolution for the other user is in flight.
C30_Witness ==
    /\ cache["alice"] # NoEntry /\ cache["bob@x"] # NoEntry
    /\ \E p, q \in Procs :
         /\ rq[p].op = "resolve" /\ rq[p].pc = "done" /\ rq[p].status = HTTP_200
         /\ rq[p].hit
         /\ rq[q].op = "resolve" /\ rq[q].pc = "gcu_set"
         /\ rq[q].username # rq[p].username

\* C29: every session token issued by login_user has as subject a user that
\* is confirmed in the users table when the token is issued, and every user
\* that get_current_user resolves from a login-issued token is confirmed in
\* the users table when it is resolved.
C29_Issue ==
    \A p \in Procs :
        (rq[p].pc = "idle" /\ rq'[p].op = "login" /\ rq'[p].status = HTTP_200) =>
            /\ rq'[p].out_token # NoToken
            /\ get_user_by_username(rq'[p].out_token.sub) # NoUser
            /\ get_user_by_username(rq'[p].out_token.sub).confirmed

C29_State ==
    \A p \in Procs :
        /\ (rq[p].op = "login" /\ rq[p].out_token # NoToken) =>
               get_user_by_username(rq[p].out_token.sub).confirmed
        /\ rq[p].minted = "create_access_token" =>
               get_user_by_username(rq[p].token.sub).confirmed
        /\ (/\ rq[p].minted = "create_access_token" /\ rq[p].op = "resolve"
            /\ rq[p].pc = "done" /\ rq[p].status = HTTP_200) =>
               /\ rq[p].resolved.username = rq[p].token.sub
               /\ \E i \in DOMAIN users : /\ users[i].id = rq[p].resolved.id
                                          /\ users[i].username = rq[p].resolved.username
                                          /\ users[i].confirmed

C29_LoginTokensOfConfirmedUsers == []C29_State /\ [][C29_Issue]_vars

\* A user who registered and confirmed after the start has logged in, and the
\* login-issued token has been resolved from a cache entry written before the
\* confirmation: the returned copy is unconfirmed, the record in the table is
\* confirmed.
C29_Witness ==
    \E p \in Procs :
        /\ rq[p].minted = "create_access_token" /\ rq[p].op = "resolve"
        /\ rq[p].pc = "done" /\ rq[p].status = HTTP_200
        /\ rq[p].resolved.id > 1
        /\ ~rq[p].resolved.confirmed
        /\ get_user_by_username(rq[p].token.sub).confirmed

\* C22: a user's role is fixed at creation: no step of a registration, login,
\* confirmation, request_email, avatar update, identity resolution or
\* role-gate check changes the role (or the id) of an existing user record, and
\* the role a record is created with is the role of the registration body.
C22_Kept ==
    \A i \in DOMAIN users :
        /\ i \in DOMAIN users'
        /\ users'[i].id = users[i].id
        /\ users'[i].role = users[i].role

C22_Created ==
    \A p \in Procs :
        (rq[p].pc = "reg_create" /\ rq'[p].pc = "reg_send") =>
            /\ Len(users') = Len(users) + 1
            /\ users'[Len(users')].role = rq[p].role

C22_RoleFixed == [][C22_Kept /\ C22_Created]_vars

\* An admin and a plain user exist; the admin's record has been confirmed and
\* its avatar replaced, and it has passed the admin gate.
C22_Witness ==
    \E i \in DOMAIN users, p \in Procs :
        /\ users[i].role = "admin" /\ users[i].confirmed
        /\ users[i].avatar = CloudinaryUrl
        /\ rq[p].op = "read_admin" /\ rq[p].status = HTTP_200
        /\ rq[p].resolved.id = users[i].id

\* C23: create_contact for an authenticated user returns the created contact,
\* and the API answers 201.
C23_CreateReturnsContact ==
    \A p \in Procs :
        (rq[p].op = "create_contact" /\ rq[p].pc = "done") =>
            /\ rq[p].status = HTTP_201
            /\ rq[p].out_contact # NoContact
            /\ rq[p].out_contact = rq[p].contact

\* What create_contact does before it fails: it adds exactly one contact, owned
\* by the caller, with the submitted fields, and commits once.
C23_CreateAddsOne ==
    [][\A p \in Procs :
          (rq[p].pc = "idle" /\ rq'[p].op = "create_contact") =>
              /\ Len(contacts') = Len(contacts) + 1
              /\ \A i \in DOMAIN contacts : contacts'[i] = contacts[i]
              /\ contacts'[Len(contacts')].user_id = rq'[p].caller
              /\ contacts'[Len(contacts')].first_name = rq'[p].body.first_name
              /\ contacts'[Len(contacts')].birthday = rq'[p].body.birthday
              /\ rq'[p].nwrite = 1]_vars

\* C24: remove_contact on an existing contact of the caller deletes that
\* contact (and no other), commits exactly once and returns the deleted
\* contact. A deleted contact stays deleted, so a repeated remove_contact with
\* the same id finds nothing: it returns none, which the API answers with 404
\* 'Requested contact not found', commits nothing and changes no contact.
C24_Lookup ==
    \A p \in Procs :
        (rq[p].pc = "idle" /\ rq'[p].op = "remove_contact") =>
            LET r == rq'[p]
                row == IF r.contact_id \in DOMAIN contacts
                       THEN contacts[r.contact_id] ELSE NoContact
            IN /\ contacts' = contacts
               /\ r.nwrite = 0
               /\ (row # NoContact /\ row.user_id = r.caller) =>
                     (r.pc = "rm_commit" /\ r.contact = row)
               /\ row = NoContact =>
                     /\ r.pc = "done" /\ r.status = HTTP_404
                     /\ r.detail = "Requested contact not found"
                     /\ r.contact = NoContact /\ r.out_contact = NoContact

C24_Commit ==
    \A p \in Procs :
        (rq[p].pc = "rm_commit" /\ Step(p)) =>
            LET id == rq[p].contact.id
            IN /\ rq'[p].pc = "done"
               /\ rq'[p].nwrite = 1
               /\ rq'[p].out_contact = rq[p].contact
               /\ rq'[p].out_contact.id = rq[p].contact_id
               /\ DOMAIN contacts' = DOMAIN contacts
               /\ contacts'[id] = NoContact
               /\ \A j \in DOMAIN contacts : j # id => contacts'[j] = contacts[j]

C24_StaysDeleted ==
    \A i \in DOMAIN contacts :
        contacts[i] = NoContact => (i \in DOMAIN contacts' /\ contacts'[i] = NoContact)

C24_State ==
    \A p \in Procs :
        rq[p].op = "remove_contact" =>
            /\ rq[p].nwrite <= 1
            /\ rq[p].nwrite = 1 <=> (rq[p].pc = "done" /\ rq[p].out_contact # NoContact)

C25_Lookup ==
    \A p \in Procs :
        (rq[p].pc = "idle" /\ rq'[p].op = "update_contact") =>
            LET r == rq'[p]
                row == IF r.contact_id \in DOMAIN contacts
                       THEN contacts[r.contact_id] ELSE NoContact
                found == IF row # NoContact /\ row.user_id = r.caller
                         THEN row ELSE NoContact
            IN /\ contacts' = contacts
               /\ r.nwrite = 0
               /\ found # NoContact => (r.pc = "upd_commit" /\ r.contact = found)
               /\ found = NoContact =>
                     /\ r.pc = "done" /\ r.status = HTTP_404
                     /\ r.detail = "Contact not found"
                     /\ r.out_contact = NoContact

\* The commit of an update whose contact is as the lookup found it.
C25_Commit ==
    \A p \in Procs :
        (/\ rq[p].pc = "upd_commit" /\ Step(p)
         /\ contacts[rq[p].contact.id] = rq[p].contact) =>
            LET id == rq[p].contact.id
            IN /\ rq'[p].pc = "done"
               /\ rq'[p].nwrite = 1
               /\ DOMAIN contacts' = DOMAIN contacts
               /\ contacts'[id] = [id |-> id, user_id |-> rq[p].caller,
                                   first_name |-> rq[p].body.first_name,
                                   birthday |-> rq[p].body.birthday]
               /\ rq'[p].out_contact = contacts'[id]
               /\ \A j \in DOMAIN contacts : j # id => contacts'[j] = contacts[j]

\* Whatever happened since the lookup, an update changes no other contact and
\* commits at most once.
C25_Others ==
    \A p \in Procs :
        (rq[p].pc = "upd_commit" /\ Step(p)) =>
            /\ \A j \in DOMAIN contacts :
                 j # rq[p].contact.id => (j \in DOMAIN contacts' /\ contacts'[j] = contacts[j])
            /\ rq'[p].nwrite <= 1

C25_State ==
    \A p \in Procs :
        rq[p].op = "update_contact" =>
            /\ rq[p].nwrite <= 1
            /\ rq[p].nwrite = 1 <=> (rq[p].pc = "done" /\ rq[p].out_contact # NoContact)

C26_InWindow(birthday, today) == \E k \in 0..7 : timedelta(today, k) = birthday

C26_UpcomingBirthdays ==
    \A p \in Procs :
        (rq[p].op = "upcoming_birthdays" /\ rq[p].pc = "done") =>
            /\ rq[p].status = HTTP_200
            /\ rq[p].out_contacts =
                   {c \in ContactRows : /\ c.user_id = rq[p].caller
                                        /\ C26_InWindow(c.birthday, rq[p].today)}

\* What the claim needs of the WHERE clause on its own, had the statement been
\* executed: that it selects the birthdays of the window. It does not: on
\* 28 December it requires day >= 28 and day <= 4, and leaves out 2 January.
C26_CriteriaSelectWindow ==
    \A today \in Todays, birthday \in Birthdays :
        upcoming_birthdays_criteria(birthday, today) <=> C26_InWindow(birthday, today)

\* C27: every contact operation is scoped to the caller: under any
\* interleaving of operations by any users, the contact a lookup finds, the
\* contact or contacts an operation returns, and every contact a step changes
\* or deletes is owned by the caller of the request that takes the step; a
\* created contact is owned by its creator; and get_contact, update_contact
\* and remove_contact on the id of another user's contact end as they do on an
\* id that no contact has: not found, nothing returned, nothing committed.
C27_NotFound(op) ==
    IF op = "remove_contact" THEN "Requested contact not found" ELSE "Contact not found"

C27_State ==
    \A p \in Procs :
        rq[p].caller # 0 =>
            /\ rq[p].contact # NoContact => rq[p].contact.user_id = rq[p].caller
            /\ rq[p].out_contact # NoContact => rq[p].out_contact.user_id = rq[p].caller
            /\ \A c \in rq[p].out_contacts : c.user_id = rq[p].caller

C27_Writes ==
    /\ \A i \in DOMAIN contacts :
         /\ i \in DOMAIN contacts'
         /\ contacts'[i] # contacts[i] =>
              \E p \in Procs : /\ Step(p)
                               /\ rq[p].caller = contacts[i].user_id
                               /\ contacts'[i] # NoContact =>
                                      contacts'[i].user_id = contacts[i].user_id
    /\ \A i \in DOMAIN contacts' \ DOMAIN contacts :
         \E p \in Procs : Step(p) /\ rq'[p].caller = contacts'[i].user_id

C27_Lookup ==
    \A p \in Procs :
        (/\ rq[p].pc = "idle"
         /\ rq'[p].op \in {"get_contact", "update_contact", "remove_contact"}) =>
            LET r == rq'[p]
                row == IF r.contact_id \in DOMAIN contacts
                       THEN contacts[r.contact_id] ELSE NoContact
            IN (row = NoContact \/ row.user_id # r.caller) =>
                  /\ r.pc = "done" /\ r.status = HTTP_404
                  /\ r.detail = C27_NotFound(r.op)
                  /\ r.contact = NoContact /\ r.out_contact = NoContact
                  /\ r.nwrite = 0
                  /\ contacts' = contacts

C27_ScopedToCaller == []C27_State /\ [][C27_Writes /\ C27_Lookup]_vars

\* Both users have a contact, and a request of one user for the id of the
\* other user's contact has been answered 404.
C27_Witness ==
    \E p \in Procs, i, j \in DOMAIN contacts :
        /\ contacts[i] # NoContact /\ contacts[j] # NoContact
        /\ contacts[i].user_id = rq[p].caller
        /\ contacts[j].user_id # rq[p].caller
        /\ rq[p].op \in {"get_contact", "update_contact", "remove_contact"}
        /\ rq[p].contact_id = j
        /\ rq[p].pc = "done" /\ rq[p].status = HTTP_404

====
